---------------------------- MODULE Spec2Model ----------------------------
(***************************************************************************)
(* Model of the statistical engine of the "studio" repository:             *)
(*   src/src/lib/analysis.ts   calculateLinearRegression,                  *)
(*                             generateNormalDistribution, studentsTTest,  *)
(*                             tDistr (betacf, betai)                      *)
(*   src/unnamed/part_004      the server actions runAnalysis and          *)
(*                             performStatisticalTest                      *)
(*                                                                         *)
(* JavaScript numbers are IEEE-754 doubles.  They are modelled as records  *)
(*   [k |-> "nan"], [k |-> "inf", v |-> +1 / -1], [k |-> "fin", v |-> r]   *)
(* where a finite number is the fixed-point value r / SCALE.  Every        *)
(* arithmetic operator follows the IEEE rules for NaN and the infinities   *)
(* (NaN is contagious, Inf - Inf = 0 * Inf = 0 / 0 = NaN, x / 0 = +-Inf,   *)
(* every comparison with NaN is false), rounds a finite result to the     *)
(* nearest number of the grid, and overflows to +-Inf beyond MAXFIN, as a  *)
(* double does beyond Number.MAX_VALUE.  Signed zeros are not modelled:    *)
(* the only divisor that can be zero in the code is a square root.         *)
(***************************************************************************)
EXTENDS Integers, Sequences, FiniteSets

\* Resolution of the grid of finite numbers: a finite number is v / SCALE
\* (three decimal digits).
SCALE == 10 * 10 * 10

\* Largest magnitude (in grid units) of a finite number; beyond it a result
\* overflows to an infinity.
MAXFIN == 2000 * SCALE

----------------------------------------------------------------------------
(* IEEE-754 numbers                                                        *)

NaN == [k |-> "nan", v |-> 0]
PInf == [k |-> "inf", v |-> 1]
NInf == [k |-> "inf", v |-> -1]
Fin(r) == [k |-> "fin", v |-> r]

AbsInt(i) == IF i < 0 THEN -i ELSE i
SignInt(i) == IF i < 0 THEN -1 ELSE 1

\* A finite result, or the infinity it overflows to.
Norm(r) == IF r > MAXFIN THEN PInf ELSE IF r < -MAXFIN THEN NInf ELSE Fin(r)

\* The number i, for an integer i.
FromInt(i) == Norm(i * SCALE)

IsNaN(x) == x.k = "nan"
IsFinite(x) == x.k = "fin"
IsZero(x) == x.k = "fin" /\ x.v = 0

\* Sign of a number that is not NaN: -1 or +1 (zero counts as positive).
SignOf(x) == IF x.v < 0 THEN -1 ELSE 1

FNeg(x) == IF IsNaN(x) THEN NaN ELSE [k |-> x.k, v |-> -x.v]

FAbs(x) == IF IsNaN(x) THEN NaN ELSE [k |-> x.k, v |-> AbsInt(x.v)]

\* x + y
FAdd(x, y) ==
    IF IsNaN(x) \/ IsNaN(y) THEN NaN
    ELSE IF x.k = "inf" /\ y.k = "inf" THEN (IF x.v = y.v THEN x ELSE NaN)
    ELSE IF x.k = "inf" THEN x
    ELSE IF y.k = "inf" THEN y
    ELSE Norm(x.v + y.v)

\* x - y
FSub(x, y) == FAdd(x, FNeg(y))

\* |x * y| for finite magnitudes a, b in grid units, rounded to the nearest;
\* MAXFIN + 1 when it overflows.  The product is formed in two parts so that
\* no intermediate value leaves the range of the checker's integers.
MulMag(a, b) ==
    LET hi == a \div SCALE
        lo == a % SCALE
    IN  IF hi > 0 /\ b > MAXFIN \div hi THEN MAXFIN + 1
        ELSE hi * b + (lo * b + SCALE \div 2) \div SCALE

\* x * y
FMul(x, y) ==
    IF IsNaN(x) \/ IsNaN(y) THEN NaN
    ELSE IF x.k = "inf" \/ y.k = "inf"
         THEN IF IsZero(x) \/ IsZero(y) THEN NaN
              ELSE IF SignOf(x) = SignOf(y) THEN PInf ELSE NInf
    ELSE Norm(SignInt(x.v) * SignInt(y.v) * MulMag(AbsInt(x.v), AbsInt(y.v)))

\* |x / y| for finite magnitudes a, b > 0 in grid units, rounded to the
\* nearest; MAXFIN + 1 when it overflows.
DivMag(a, b) ==
    LET q == a \div b
        r == a % b
    IN  IF q > MAXFIN \div SCALE THEN MAXFIN + 1
        ELSE q * SCALE + (r * SCALE + b \div 2) \div b

\* x / y
FDiv(x, y) ==
    IF IsNaN(x) \/ IsNaN(y) THEN NaN
    ELSE IF x.k = "inf"
         THEN IF y.k = "inf" THEN NaN
              ELSE IF SignOf(x) = SignOf(y) THEN PInf ELSE NInf
    ELSE IF y.k = "inf" THEN Fin(0)
    ELSE IF y.v = 0
         THEN IF x.v = 0 THEN NaN ELSE IF x.v > 0 THEN PInf ELSE NInf
    ELSE Norm(SignInt(x.v) * SignInt(y.v) * DivMag(AbsInt(x.v), AbsInt(y.v)))

\* x < y, x > y, x === y: false as soon as an operand is NaN.
FLt(x, y) ==
    /\ ~IsNaN(x)
    /\ ~IsNaN(y)
    /\ IF x.k = "inf" THEN x.v < 0 /\ ~(y.k = "inf" /\ y.v < 0)
       ELSE IF y.k = "inf" THEN y.v > 0
       ELSE x.v < y.v
FGt(x, y) == FLt(y, x)
FEq(x, y) == ~IsNaN(x) /\ ~IsNaN(y) /\ x = y
FLe(x, y) == FLt(x, y) \/ FEq(x, y)

\* The largest r in lo..hi with r * r <= n (bisection).
RECURSIVE ISqrtIn(_, _, _)
ISqrtIn(n, lo, hi) ==
    IF lo >= hi THEN lo
    ELSE LET mid == (lo + hi + 1) \div 2
         IN  IF mid * mid <= n THEN ISqrtIn(n, mid, hi) ELSE ISqrtIn(n, lo, mid - 1)

\* The integer nearest to the square root of n.
ISqrt(n) ==
    LET r == ISqrtIn(n, 0, 46340)
    IN  IF n - r * r > r THEN r + 1 ELSE r

\* Math.sqrt
FSqrt(x) ==
    IF IsNaN(x) THEN NaN
    ELSE IF x.k = "inf" THEN (IF x.v > 0 THEN PInf ELSE NaN)
    ELSE IF x.v < 0 THEN NaN
    ELSE Fin(ISqrt(x.v * SCALE))

\* x * x * ... * x (n factors), n >= 0
RECURSIVE FPow(_, _)
FPow(x, n) == IF n = 0 THEN FromInt(1) ELSE FMul(x, FPow(x, n - 1))

----------------------------------------------------------------------------
(* Hypothesis test: src/src/lib/analysis.ts, studentsTTest and tDistr      *)

\* const MAXIT = 100
MAXIT == 100

\* const EPS = 3.0e-7 and const FPMIN = 1.0e-30 lie below the resolution of
\* the grid; each is modelled by the smallest positive number of the grid,
\* so that |v| < EPS and |v| < FPMIN hold exactly when v is zero on the grid.
EPS == Fin(1)
FPMIN == Fin(1)

One == FromInt(1)
Half == Fin(SCALE \div 2)

\* if (Math.abs(v) < FPMIN) v = FPMIN
Floored(v) == IF FLt(FAbs(v), FPMIN) THEN FPMIN ELSE v

\* One iteration of the for-loop of betacf: the values of c, d, h and del
\* at its end, from the values st.c, st.d, st.h at its start.
betacfStep(x, a, b, m, st) ==
    LET qab == FAdd(a, b)
        qap == FAdd(a, One)
        qam == FSub(a, One)
        fm  == FromInt(m)
        m2  == FromInt(2 * m)
        aa1 == FDiv(FMul(FMul(fm, FSub(b, fm)), x),
                    FMul(FAdd(qam, m2), FAdd(a, m2)))
        d1  == Floored(FAdd(One, FMul(aa1, st.d)))
        c1  == Floored(FAdd(One, FDiv(aa1, st.c)))
        d2  == FDiv(One, d1)
        h1  == FMul(st.h, FMul(d2, c1))
        aa2 == FDiv(FMul(FMul(FNeg(FAdd(a, fm)), FAdd(qab, fm)), x),
                    FMul(FAdd(a, m2), FAdd(qap, m2)))
        d3  == Floored(FAdd(One, FMul(aa2, d2)))
        c2  == Floored(FAdd(One, FDiv(aa2, c1)))
        d4  == FDiv(One, d3)
        del == FMul(d4, c2)
    IN  [c |-> c2, d |-> d4, h |-> FMul(h1, del), del |-> del]

\* The state of the loop after iteration m, from the values nx that the
\* iteration computed, with its test if (Math.abs(del - 1.0) < EPS) break.
\* iters counts the iterations performed and done says that the loop was
\* left by the break.
betacfTest(m, nx) ==
    [c |-> nx.c, d |-> nx.d, h |-> nx.h, del |-> nx.del, iters |-> m,
     done |-> FLt(FAbs(FSub(nx.del, One)), EPS)]

\* Iteration m of the for-loop.
betacfIter(x, a, b, m, st) == betacfTest(m, betacfStep(x, a, b, m, st))

\* for (let m = lo; m <= hi; m++) { ... }: the iterations lo..hi in order,
\* none after the break.  The range is halved instead of walked one by one
\* to keep the evaluation shallow; the iterations performed are the same.
RECURSIVE betacfLoop(_, _, _, _, _, _)
betacfLoop(x, a, b, lo, hi, st) ==
    IF st.done THEN st
    ELSE IF lo = hi THEN betacfIter(x, a, b, lo, st)
    ELSE betacfLoop(x, a, b, (lo + hi) \div 2 + 1, hi,
                    betacfLoop(x, a, b, lo, (lo + hi) \div 2, st))

\* return h, with the number of iterations the loop performed.
betacfReturn(st) == [h |-> st.h, iters |-> st.iters]

\* betacf from its loop on, with the loop allowed twice MAXIT iterations.
betacfFrom_TwiceAsLong(x, a, b, d) ==
    betacfReturn(betacfLoop(x, a, b, 1, 2 * MAXIT,
                            [c |-> One, d |-> d, h |-> d, del |-> One,
                             iters |-> 0, done |-> FALSE]))

\* betacf from its loop on: c = 1.0, h = d, then the loop.
betacfFrom(x, a, b, d) ==
    betacfReturn(betacfLoop(x, a, b, 1, MAXIT,
                            [c |-> One, d |-> d, h |-> d, del |-> One,
                             iters |-> 0, done |-> FALSE]))

\* betacf(x, a, b): the continued fraction of the incomplete beta function
\* by Lentz's method.  [h, iters]
betacf(x, a, b) ==
    betacfFrom(x, a, b,
               FDiv(One, Floored(FSub(One, FDiv(FMul(FAdd(a, b), x), FAdd(a, One))))))

\* Math.exp(a * Math.log(x) + b * Math.log(1.0 - x)), that is x^a * (1-x)^b,
\* for the arguments betai is called with: a and b are multiples of 1/2
\* (b = 0.5 and a = df / 2), so x^a = sqrt(x)^(2a).  NaN for a NaN x, as
\* Math.log(NaN) is NaN.
ExpLog(x, a, b) ==
    IF IsNaN(x) \/ IsNaN(a) \/ IsNaN(b) THEN NaN
    ELSE FMul(FPow(FSqrt(x), (2 * a.v) \div SCALE),
              FPow(FSqrt(FSub(One, x)), (2 * b.v) \div SCALE))

\* bt of betai.
betaiBt(x, a, b) ==
    IF FEq(x, Fin(0)) \/ FEq(x, One) THEN Fin(0) ELSE ExpLog(x, a, b)

\* return bt * betacf(x, a, b) / a, for the result r of that call of betacf.
\* cf records the call: its first argument and its iterations.
betaiLow(bt, x, a, r) ==
    [val |-> FDiv(FMul(bt, r.h), a), cf |-> <<[x |-> x, iters |-> r.iters]>>]

\* return 1.0 - bt * betacf(1.0 - x, b, a) / b, for the result r of that
\* call of betacf, whose first argument is y = 1.0 - x.
betaiHigh(bt, y, b, r) ==
    [val |-> FSub(One, FDiv(FMul(bt, r.h), b)),
     cf |-> <<[x |-> y, iters |-> r.iters]>>]

\* betai(x, a, b).  [val |-> the value returned,
\*                   cf  |-> the calls of betacf made: <<[x, iters]>> or <<>>]
betai(x, a, b) ==
    IF FLt(x, Fin(0)) \/ FGt(x, One) THEN [val |-> Fin(0), cf |-> <<>>]
    ELSE IF FLt(x, FDiv(FAdd(a, One), FAdd(FAdd(a, b), FromInt(2))))
         THEN betaiLow(betaiBt(x, a, b), x, a, betacf(x, a, b))
         ELSE betaiHigh(betaiBt(x, a, b), FSub(One, x), b,
                        betacf(FSub(One, x), b, a))

\* return 1.0 - betai(x, a, 0.5), for the result r of that call of betai.
tDistrReturn(r) == [val |-> FSub(One, r.val), cf |-> r.cf]

\* tDistr(df, t), df an integer and t a number.  [val, cf]
tDistr(df, t) ==
    tDistrReturn(betai(FDiv(FromInt(df), FAdd(FromInt(df), FMul(t, t))),
                       FDiv(FromInt(df), FromInt(2)),
                       Half))

\* if (n1 <= 1 || n2 <= 1) return NaN  -- the guard, mistaken
NotEnoughData_Both(n1, n2) == n1 <= 1 /\ n2 <= 1

\* if (n1 <= 1 || n2 <= 1) return NaN  -- the guard
NotEnoughData(n1, n2) == n1 <= 1 \/ n2 <= 1

\* The pooled standard deviation with the weight of the first group used
\* for both.
PooledStdDev_SameWeight(sd1, n1, sd2, n2) ==
    FSqrt(FDiv(FAdd(FMul(FMul(FromInt(n1 - 1), sd1), sd1),
                    FMul(FMul(FromInt(n1 - 1), sd2), sd2)),
               FromInt(n1 + n2 - 2)))

\* Math.sqrt(((n1 - 1) * sd1 * sd1 + (n2 - 1) * sd2 * sd2) / (n1 + n2 - 2))
PooledStdDev(sd1, n1, sd2, n2) ==
    FSqrt(FDiv(FAdd(FMul(FMul(FromInt(n1 - 1), sd1), sd1),
                    FMul(FMul(FromInt(n2 - 1), sd2), sd2)),
               FromInt(n1 + n2 - 2)))

\* (mean1 - mean2) / (pooledStdDev * Math.sqrt(1/n1 + 1/n2))
TStatistic(mean1, mean2, pooledStdDev, n1, n2) ==
    FDiv(FSub(mean1, mean2),
         FMul(pooledStdDev,
              FSqrt(FAdd(FDiv(One, FromInt(n1)), FDiv(One, FromInt(n2))))))

\* What a call of studentsTTest that got past its guard did: r is the result
\* of tDistr(degreesFreedom, Math.abs(tStatistic)).  p is the value returned,
\* steps names what was evaluated, cf lists the calls of betacf.
tTestReturn(pooledStdDev, tStatistic, r) ==
    [p |-> r.val,
     steps |-> {"pooledStdDev", "tStatistic", "tDistr"}
               \cup (IF r.cf = <<>> THEN {} ELSE {"betacf"}),
     pooledStdDev |-> pooledStdDev,
     tStatistic |-> tStatistic,
     cf |-> r.cf]

\* studentsTTest from the t-statistic on.
tTestFromT(pooledStdDev, tStatistic, degreesFreedom) ==
    tTestReturn(pooledStdDev, tStatistic, tDistr(degreesFreedom, FAbs(tStatistic)))

\* studentsTTest from the pooled standard deviation on.
tTestFromPooled(group1, group2, pooledStdDev) ==
    tTestFromT(pooledStdDev,
               TStatistic(group1.mean, group2.mean, pooledStdDev, group1.n, group2.n),
               group1.n + group2.n - 2)

\* studentsTTest(group1, group2) for group statistics [mean, sd, n], n an
\* integer.  After the early return nothing was evaluated.
studentsTTest(group1, group2) ==
    IF NotEnoughData(group1.n, group2.n)
    THEN [p |-> NaN, steps |-> {}, pooledStdDev |-> NaN,
          tStatistic |-> NaN, cf |-> <<>>]
    ELSE tTestFromPooled(group1, group2,
                         PooledStdDev(group1.sd, group1.n, group2.sd, group2.n))

----------------------------------------------------------------------------
(* Server action performStatisticalTest: src/unnamed/part_004              *)

\* The hypothesis tests the form offers (the Select of the comparison card).
TestKinds == {"t-test", "anova", "mann-whitney", "kruskal-wallis"}

\* The end of performStatisticalTest without its isNaN check.
SettleTest_Unchecked(pValue) ==
    [status |-> "resolved", pValue |-> pValue, message |-> ""]

\* if (isNaN(pValue)) throw new Error(...); return {pValue}, with the catch
\* block that rethrows the error under the prefix "Statistical test failed: ".
SettleTest(pValue) ==
    IF IsNaN(pValue)
    THEN [status |-> "rejected", pValue |-> NaN,
          message |-> "Statistical test failed: Could not calculate p-value. Check input data."]
    ELSE [status |-> "resolved", pValue |-> pValue, message |-> ""]

\* performStatisticalTest after the switch: run is the call of studentsTTest
\* that either branch made, warned says that the default branch logged the
\* fallback with console.warn, and outcome is how the promise settles.
testSettled(test, run) ==
    [run |-> run, warned |-> test # "t-test", outcome |-> SettleTest(run.p)]

\* performStatisticalTest(values) for values = [group1, group2, test], each
\* group [mean, sd, samples].  Both branches of switch (test) call
\* studentsTTest with the same arguments.
performStatisticalTest(values) ==
    testSettled(values.test,
                studentsTTest(
                    [mean |-> values.group1.mean, sd |-> values.group1.sd,
                     n |-> values.group1.samples],
                    [mean |-> values.group2.mean, sd |-> values.group2.sd,
                     n |-> values.group2.samples]))

----------------------------------------------------------------------------
(* Regression: src/src/lib/analysis.ts, calculateLinearRegression          *)

\* The sums of the for-loop over the points i..Len(points), added to acc.
RECURSIVE SumPoints(_, _, _)
SumPoints(points, i, acc) ==
    IF i > Len(points) THEN acc
    ELSE LET x == points[i].x
             y == points[i].y
         IN  SumPoints(points, i + 1,
                 [sumX  |-> FAdd(acc.sumX, x),
                  sumY  |-> FAdd(acc.sumY, y),
                  sumXY |-> FAdd(acc.sumXY, FMul(x, y)),
                  sumX2 |-> FAdd(acc.sumX2, FMul(x, x)),
                  sumY2 |-> FAdd(acc.sumY2, FMul(y, y))])

\* calculateLinearRegression(points), points a sequence of [x, y].
calculateLinearRegression(points) ==
    LET n == Len(points)
    IN  IF n < 2 THEN [m |-> NaN, c |-> NaN, rSquare |-> Fin(0)]
        ELSE
        LET fn == FromInt(n)
            s  == SumPoints(points, 1,
                      [sumX |-> Fin(0), sumY |-> Fin(0), sumXY |-> Fin(0),
                       sumX2 |-> Fin(0), sumY2 |-> Fin(0)])
            denominator == FSub(FMul(fn, s.sumX2), FMul(s.sumX, s.sumX))
        IN  IF FEq(denominator, Fin(0))
            THEN [m |-> NaN, c |-> NaN, rSquare |-> Fin(0)]
            ELSE
            LET m == FDiv(FSub(FMul(fn, s.sumXY), FMul(s.sumX, s.sumY)), denominator)
                c == FDiv(FSub(s.sumY, FMul(m, s.sumX)), fn)
                rNumerator == FSub(FMul(fn, s.sumXY), FMul(s.sumX, s.sumY))
                rDenominator ==
                    FSqrt(FMul(FSub(FMul(fn, s.sumX2), FMul(s.sumX, s.sumX)),
                               FSub(FMul(fn, s.sumY2), FMul(s.sumY, s.sumY))))
            IN  IF FEq(rDenominator, Fin(0))
                THEN [m |-> m, c |-> c, rSquare |-> One]
                ELSE LET r == FDiv(rNumerator, rDenominator)
                     IN  [m |-> m, c |-> c, rSquare |-> FMul(r, r)]

----------------------------------------------------------------------------
(* Synthesis: src/src/lib/analysis.ts, generateNormalDistribution          *)

\* The values Math.random() returns in the runs explored: 0, 1/8 and 1/2.
Uniforms == {Fin(0), Fin(SCALE \div 8), Fin(SCALE \div 2)}

\* Math.log(u) for the uniforms: ln(1/8) = -2.079, ln(1/2) = -0.693, and
\* Math.log(0) = -Infinity.
MathLog(u) ==
    CASE u = Fin(0) -> NInf
      [] u = Fin(SCALE \div 8) -> Fin(-(2079 * SCALE) \div 1000)
      [] u = Fin(SCALE \div 2) -> Fin(-(693 * SCALE) \div 1000)

\* Math.cos(2.0 * Math.PI * u) for the uniforms: cos(0) = 1,
\* cos(pi/4) = 0.707, cos(pi) = -1.
MathCosTwoPi(u) ==
    CASE u = Fin(0) -> One
      [] u = Fin(SCALE \div 8) -> Fin((707 * SCALE) \div 1000)
      [] u = Fin(SCALE \div 2) -> FromInt(-1)

\* The process-wide generator behind Math.random(): the values it returns
\* in turn (seq, repeated) and the position of the next one.
RandomValue(rnd) == rnd.seq[rnd.pos]
RandomAdvance(rnd) == [seq |-> rnd.seq, pos |-> (rnd.pos % Len(rnd.seq)) + 1]

\* u = Math.random() taken as it comes, 0 included.
SkipZeros_Keep(rnd) == rnd

\* while (u === 0) u = Math.random(): the generator moved to the first value
\* that is not 0.
RECURSIVE SkipZeros(_)
SkipZeros(rnd) ==
    IF RandomValue(rnd) = Fin(0) THEN SkipZeros(RandomAdvance(rnd)) ELSE rnd

\* z0 = Math.sqrt(-2.0 * Math.log(u1)) * Math.cos(2.0 * Math.PI * u2)
BoxMuller(u1, u2) ==
    FMul(FSqrt(FMul(FromInt(-2), MathLog(u1))), MathCosTwoPi(u2))

\* value = z0 * mean + stdDev  -- the operands mistaken
SampleValue_Swapped(mean, stdDev, u1, u2) ==
    FAdd(FMul(BoxMuller(u1, u2), mean), stdDev)

\* value = z0 * stdDev + mean
SampleValue(mean, stdDev, u1, u2) ==
    FAdd(FMul(BoxMuller(u1, u2), stdDev), mean)

\* The end of one iteration: u1 was drawn, r2 is the generator at u2.
\* pairs records the u1 and u2 that went into each value.
genPush(mean, stdDev, st, u1, r2) ==
    [values |-> Append(st.values, SampleValue(mean, stdDev, u1, RandomValue(r2))),
     pairs |-> Append(st.pairs, [u1 |-> u1, u2 |-> RandomValue(r2)]),
     random |-> RandomAdvance(r2)]

\* One iteration from the draw of u2 on: r1 is the generator at u1.
genDrawU2(mean, stdDev, st, r1) ==
    genPush(mean, stdDev, st, RandomValue(r1), SkipZeros(RandomAdvance(r1)))

\* One iteration of the for-loop of generateNormalDistribution.
genStep(mean, stdDev, st) ==
    genDrawU2(mean, stdDev, st, SkipZeros(st.random))

\* for (let i = ...; i <= count; i++)  -- one iteration too many
RECURSIVE genLoop_OneMore(_, _, _, _, _)
genLoop_OneMore(mean, stdDev, i, count, st) ==
    IF i > count THEN st
    ELSE genLoop_OneMore(mean, stdDev, i + 1, count, genStep(mean, stdDev, st))

\* for (let i = ...; i < count; i++)
RECURSIVE genLoop(_, _, _, _, _)
genLoop(mean, stdDev, i, count, st) ==
    IF i >= count THEN st
    ELSE genLoop(mean, stdDev, i + 1, count, genStep(mean, stdDev, st))

\* generateNormalDistribution(mean, stdDev, count) with the generator in the
\* state rnd.  [values |-> the array returned, pairs |-> the uniforms used,
\* random |-> the generator after]
generateNormalDistribution(mean, stdDev, count, rnd) ==
    genLoop(mean, stdDev, 0, count, [values |-> <<>>, pairs |-> <<>>, random |-> rnd])

----------------------------------------------------------------------------
(* Server action runAnalysis: src/unnamed/part_004                         *)

Null == [null |-> TRUE]

\* standardCurve.map(p => ({ x: p.concentration, y: p.absorbance }))
CurveToPoints(curve) ==
    [i \in 1..Len(curve) |-> [x |-> curve[i].concentration, y |-> curve[i].absorbance]]

\* The catch block: the error rethrown under the prefix "Analysis failed: ".
\* No value was generated.
RunFailed(message, rnd) ==
    [status |-> "rejected", result |-> Null, message |-> message,
     concentrations |-> <<>>, draws |-> <<>>, random |-> rnd]

\* finalValues = concentrationValues.map(conc => regression.c * conc + regression.m)
\* -- slope and intercept mistaken
FinalValues_Swapped(useStandardCurve, regression, concentrationValues) ==
    IF useStandardCurve /\ regression # Null
    THEN [i \in 1..Len(concentrationValues) |->
             FAdd(FMul(regression.c, concentrationValues[i]), regression.m)]
    ELSE concentrationValues

\* finalValues of a group: regression.m * conc + regression.c for each
\* concentration with the curve, the concentrations themselves without.
FinalValues(useStandardCurve, regression, concentrationValues) ==
    IF useStandardCurve /\ regression # Null
    THEN [i \in 1..Len(concentrationValues) |->
             FAdd(FMul(regression.m, concentrationValues[i]), regression.c)]
    ELSE concentrationValues

\* The end of one iteration of for (const group of groups): gen is what
\* generateNormalDistribution returned for the group.
groupPush(useStandardCurve, regression, group, acc, gen) ==
    [groupResults |->
         Append(acc.groupResults,
                [groupName |-> group.name,
                 values |-> FinalValues(useStandardCurve, regression, gen.values)]),
     concentrations |-> Append(acc.concentrations, gen.values),
     draws |-> Append(acc.draws, gen.pairs),
     random |-> gen.random]

\* for (const group of groups) { ... } from the group i on.
RECURSIVE groupLoop(_, _, _, _, _)
groupLoop(useStandardCurve, regression, groups, i, acc) ==
    IF i > Len(groups) THEN acc
    ELSE groupLoop(useStandardCurve, regression, groups, i + 1,
             groupPush(useStandardCurve, regression, groups[i], acc,
                 generateNormalDistribution(groups[i].mean, groups[i].sd,
                                            groups[i].samples, acc.random)))

\* return { standardCurve: regression, groupResults }
RunReturn(regression, acc) ==
    [status |-> "resolved",
     result |-> [standardCurve |-> regression, groupResults |-> acc.groupResults],
     message |-> "",
     concentrations |-> acc.concentrations,
     draws |-> acc.draws,
     random |-> acc.random]

\* runAnalysis from step 2 on, with the regression of step 1 (or Null).
runGroups(groups, useStandardCurve, regression, rnd) ==
    RunReturn(regression,
              groupLoop(useStandardCurve, regression, groups, 1,
                        [groupResults |-> <<>>, concentrations |-> <<>>,
                         draws |-> <<>>, random |-> rnd]))

\* if (isNaN(regression.m) || isNaN(regression.c)) throw ..., then step 2.
runWithCurve(groups, regression, rnd) ==
    IF IsNaN(regression.m) \/ IsNaN(regression.c)
    THEN RunFailed("Analysis failed: Could not calculate standard curve. Please check your data points.", rnd)
    ELSE runGroups(groups, TRUE, regression, rnd)

\* runAnalysis that fits and applies the curve whatever useStandardCurve says.
runAnalysis_IgnoringSwitch(values, useStandardCurve, rnd) ==
    IF ~values.standardCurve.defined \/ Len(values.standardCurve.points) < 2
    THEN RunFailed("Analysis failed: Standard curve requires at least 2 points.", rnd)
    ELSE runWithCurve(values.groups,
             calculateLinearRegression(CurveToPoints(values.standardCurve.points)),
             rnd)

\* runAnalysis(values, useStandardCurve) with the generator in the state rnd.
\* values = [groups, standardCurve], standardCurve = [defined, points].
\* [status, result (the AnalysisResult or Null), message, concentrations (the
\* arrays generateNormalDistribution returned, one per group), draws (the
\* uniforms behind them), random]
runAnalysis(values, useStandardCurve, rnd) ==
    IF useStandardCurve
    THEN IF ~values.standardCurve.defined \/ Len(values.standardCurve.points) < 2
         THEN RunFailed("Analysis failed: Standard curve requires at least 2 points.", rnd)
         ELSE runWithCurve(values.groups,
                  calculateLinearRegression(CurveToPoints(values.standardCurve.points)),
                  rnd)
    ELSE runGroups(values.groups, FALSE, Null, rnd)

----------------------------------------------------------------------------
(* Page, forward test: src/unnamed/part_003, calculateSD, forwardTestResults *)

\* data.reduce((a, b) => a + f(b), acc) over the elements i.. of data, for
\* f(b) = b (squares = FALSE) and f(b) = Math.pow(b - mean, 2) (squares = TRUE).
RECURSIVE Reduce(_, _, _, _, _)
Reduce(data, i, acc, squares, mean) ==
    IF i > Len(data) THEN acc
    ELSE Reduce(data, i + 1,
                FAdd(acc, IF squares
                          THEN FMul(FSub(data[i], mean), FSub(data[i], mean))
                          ELSE data[i]),
                squares, mean)

\* Math.sqrt(variance) with the variance divided by n  -- the divisor mistaken
sdFromMean_Population(data, mean) ==
    FSqrt(FDiv(Reduce(data, 1, Fin(0), TRUE, mean), FromInt(Len(data))))

\* Math.sqrt(variance), variance = the sum of squares / (n - 1)
sdFromMean(data, mean) ==
    FSqrt(FDiv(Reduce(data, 1, Fin(0), TRUE, mean), FromInt(Len(data) - 1)))

\* calculateSD(data): 0 for fewer than 2 values; the first reduce has no
\* initial value and starts from data[0].
calculateSD(data) ==
    IF Len(data) < 2 THEN Fin(0)
    ELSE sdFromMean(data, FDiv(Reduce(data, 2, data[1], FALSE, Fin(0)),
                               FromInt(Len(data))))

\* analysisResult.standardCurve || { m: 1, c: 0 }
CurveOrIdentity(standardCurve) ==
    IF standardCurve = Null THEN [m |-> One, c |-> Fin(0)] ELSE standardCurve

\* group.values.map(abs => (abs - c) / 1)  -- the slope ignored
CalculatedConcentrations_NoSlope(useStandardCurve, mc, values) ==
    IF useStandardCurve
    THEN [i \in 1..Len(values) |-> FDiv(FSub(values[i], mc.c), One)]
    ELSE values

\* useStandardCurve ? group.values.map(abs => (abs - c) / m) : group.values
CalculatedConcentrations(useStandardCurve, mc, values) ==
    IF useStandardCurve
    THEN [i \in 1..Len(values) |-> FDiv(FSub(values[i], mc.c), mc.m)]
    ELSE values

\* The entry of a group, from its calculatedConcentrations.
forwardEntry(useStandardCurve, mc, group, calculatedConcentrations) ==
    [groupName |-> group.groupName,
     sampleData |->
         [i \in 1..Len(group.values) |->
             [sample |-> i,
              absorbance |-> IF useStandardCurve THEN group.values[i]
                             ELSE FAdd(FMul(mc.m, calculatedConcentrations[i]), mc.c),
              concentration |-> calculatedConcentrations[i]]],
     concentrationMean |->
         FDiv(Reduce(calculatedConcentrations, 1, Fin(0), FALSE, Fin(0)),
              FromInt(Len(calculatedConcentrations))),
     concentrationSD |-> calculateSD(calculatedConcentrations)]

\* analysisResult.groupResults.map(group => ...)
forwardGroups(useStandardCurve, mc, groupResults) ==
    [g \in 1..Len(groupResults) |->
        forwardEntry(useStandardCurve, mc, groupResults[g],
            CalculatedConcentrations(useStandardCurve, mc, groupResults[g].values))]

\* The memo forwardTestResults of the page: Null without an analysisResult.
forwardTestResults(analysisResult, useStandardCurve) ==
    IF analysisResult = Null THEN Null
    ELSE [groups |-> forwardGroups(useStandardCurve,
                                   CurveOrIdentity(analysisResult.standardCurve),
                                   analysisResult.groupResults)]

----------------------------------------------------------------------------
(* Inputs                                                                  *)

\* Bounds of the inputs explored.
MaxMean == 3
MaxSd == 2
MaxSamples == 3
MaxPoints == 3
MaxCoord == 2
MaxGroupSamples == 2
MaxCurve == 2
MaxSubmits == 2

\* Group statistics as a caller may pass them (the schema is z.number() for
\* each field): every group of small finite numbers, and the groups with one
\* field that is NaN or Infinity.
FiniteGroups ==
    [mean : {FromInt(i) : i \in 1..MaxMean},
     sd : {FromInt(i) : i \in 0..MaxSd},
     samples : 1..MaxSamples]
NonFiniteGroups ==
    [mean : {NaN, PInf}, sd : {One}, samples : 1..MaxSamples]
    \cup [mean : {One}, sd : {NaN, PInf}, samples : 1..MaxSamples]
GroupStats == FiniteGroups \cup NonFiniteGroups
StatisticalTestInput == [group1 : GroupStats, group2 : GroupStats, test : TestKinds]

\* Curve points (finite by the data model): every point of small integer
\* coordinates, and points at the concentration 1/4, a number whose square
\* is not a number of the grid (as the square of 0.3 is not a double).
Quarter == Fin(SCALE \div 4)
IntegerPoints == [x : {FromInt(i) : i \in 0..MaxCoord}, y : {FromInt(i) : i \in 0..MaxCoord}]
FractionPoints == [x : {Quarter}, y : {FromInt(i) : i \in 1..MaxCoord}]
Points == IntegerPoints \cup FractionPoints

\* Points read at a fractional absorbance: 1/4, whose square the grid rounds
\* up, and 1.01, whose square the grid rounds down (as doubles round the
\* squares of 0.3 and of 0.7).
AbsorbancePoints ==
    [x : {FromInt(i) : i \in 0..MaxCoord}, y : {Quarter, Fin(SCALE + SCALE \div 100)}]
PointSeqs ==
    UNION {[1..k -> Points] \cup [1..k -> AbsorbancePoints] : k \in 0..MaxPoints}

\* The form values submitted (formSchema): one group, or two groups of which
\* the second may repeat the name of the first; the curve absent, or of
\* 0..MaxCurve points.  Two curve points at (0,1) and (1,3) give the line
\* y = 2x + 1, two at concentration 1/4 share their x, and (0,1) with
\* (1/4,1) gives a horizontal line.
FirstGroups ==
    [name : {"A"}, mean : {FromInt(1), FromInt(MaxMean)}, sd : {Fin(0), One},
     samples : 1..MaxGroupSamples]
SecondGroups ==
    {[name |-> "B", mean |-> FromInt(2), sd |-> One, samples |-> 2],
     [name |-> "A", mean |-> FromInt(2), sd |-> Fin(0), samples |-> 1]}
GroupSeqs ==
    {<<g>> : g \in FirstGroups} \cup {<<g, h>> : g \in FirstGroups, h \in SecondGroups}
CurvePoints ==
    {[concentration |-> Fin(0), absorbance |-> FromInt(1)],
     [concentration |-> FromInt(1), absorbance |-> FromInt(3)],
     [concentration |-> Quarter, absorbance |-> FromInt(1)]}
Curves ==
    {[defined |-> FALSE, points |-> <<>>]}
    \cup {[defined |-> TRUE, points |-> c] :
             c \in UNION {[1..k -> CurvePoints] : k \in 0..MaxCurve}}
FormValues == [groups : GroupSeqs, standardCurve : Curves]

\* The states the generator behind Math.random() may be in at the start.
RandomStates ==
    [seq : {<<Fin(SCALE \div 8), Fin(SCALE \div 2), Fin(SCALE \div 2)>>,
            <<Fin(SCALE \div 2), Fin(SCALE \div 8), Fin(SCALE \div 8)>>,
            <<Fin(0), Fin(SCALE \div 8), Fin(SCALE \div 2), Fin(SCALE \div 8)>>},
     pos : {1}]

----------------------------------------------------------------------------
(* State: one call of an operation, its argument and what it produced      *)

VARIABLES
    testInput,      \* argument of the call of performStatisticalTest, or NoCall
    testRun,        \* the studentsTTest call it made
    testWarned,     \* whether it logged the fallback warning
    testOutcome,    \* how its promise settled; Pending before the call
    fitPoints,      \* argument of the call of calculateLinearRegression
    fitResult,      \* the value it returned; Pending before the call
    formValues,     \* the values of the form
    useStandardCurve, \* page state: the Use Curve switch
    isLoading,      \* page state
    analysisResult, \* page state: the AnalysisResult shown, or Null
    forwardTest,    \* the memo forwardTestResults
    toast,          \* title of the last toast
    pendingRun,     \* the call of runAnalysis in flight, or Null
    runOutcome,     \* how the last call of runAnalysis settled, with its arguments
    random,         \* the generator behind Math.random()
    submits,        \* number of submissions so far
    groups,         \* form values: the groups
    statisticalTests, \* form values: the comparisons, one card each
    testResults,    \* page state: index of a comparison -> {isLoading, result}
    testCalls,      \* the calls of performStatisticalTest in flight from onRunTest
    testToast,      \* title of the last toast of the comparison cards
    runs,           \* number of calls onRunTest has made
    edits,          \* number of edits of the groups and of the comparisons
    standardCurve,  \* form values: the points of the standard curve
    filledFrom,     \* the points autoFillAbsorbance read; empty before it ran
    fillToast       \* title of the last toast of autoFillAbsorbance

testVars == <<testInput, testRun, testWarned, testOutcome>>
fitVars == <<fitPoints, fitResult>>
pageVars == <<formValues, useStandardCurve, isLoading, analysisResult, forwardTest,
              toast, pendingRun, runOutcome, random, submits>>
cardVars == <<groups, statisticalTests, testResults, testCalls, testToast, runs, edits>>
curveVars == <<standardCurve, filledFrom, fillToast>>
vars == <<testVars, fitVars, pageVars, cardVars, curveVars>>

NoCall == [none |-> TRUE]
Pending == [pending |-> TRUE]

\* No comparison card is shown.
NoCards ==
    /\ groups = NoCall
    /\ statisticalTests = NoCall
    /\ testResults = NoCall
    /\ testCalls = {}
    /\ testToast = ""
    /\ runs = 0
    /\ edits = 0

\* No curve is being edited.
NoCurve ==
    /\ standardCurve = NoCall
    /\ filledFrom = NoCall
    /\ fillToast = ""

\* No page is open.
NoPage ==
    /\ NoCards
    /\ NoCurve
    /\ formValues = NoCall
    /\ useStandardCurve = FALSE
    /\ isLoading = FALSE
    /\ analysisResult = NoCall
    /\ forwardTest = NoCall
    /\ toast = ""
    /\ pendingRun = NoCall
    /\ runOutcome = NoCall
    /\ random = NoCall
    /\ submits = 0

\* A caller is about to await performStatisticalTest(testInput).
InitTest ==
    /\ testInput \in StatisticalTestInput
    /\ testRun = Pending
    /\ testWarned = FALSE
    /\ testOutcome = Pending
    /\ fitPoints = <<>>
    /\ fitResult = NoCall
    /\ NoPage

\* A caller is about to evaluate calculateLinearRegression(fitPoints).
InitFit ==
    /\ testInput = NoCall
    /\ testRun = NoCall
    /\ testWarned = FALSE
    /\ testOutcome = NoCall
    /\ fitPoints \in PointSeqs
    /\ fitResult = Pending
    /\ NoPage

\* The page as it opens (useState), with the form filled in.
InitPage ==
    /\ testInput = NoCall
    /\ testRun = NoCall
    /\ testWarned = FALSE
    /\ testOutcome = NoCall
    /\ fitPoints = <<>>
    /\ fitResult = NoCall
    /\ formValues \in FormValues
    /\ useStandardCurve = TRUE
    /\ isLoading = FALSE
    /\ analysisResult = Null
    /\ forwardTest = Null
    /\ toast = ""
    /\ pendingRun = Null
    /\ runOutcome = NoCall
    /\ random \in RandomStates
    /\ submits = 0
    /\ NoCards
    /\ NoCurve

\* The call settles as r says.
TestSettles(r) ==
    /\ testRun' = r.run
    /\ testWarned' = r.warned
    /\ testOutcome' = r.outcome

\* performStatisticalTest(testInput) runs to completion.
PerformStatisticalTest ==
    /\ testOutcome = Pending
    /\ TestSettles(performStatisticalTest(testInput))
    /\ UNCHANGED <<testInput, fitVars, pageVars, cardVars, curveVars>>

\* calculateLinearRegression(fitPoints) returns.
CalculateLinearRegression ==
    /\ fitResult = Pending
    /\ fitResult' = calculateLinearRegression(fitPoints)
    /\ UNCHANGED <<testVars, fitPoints, pageVars, cardVars, curveVars>>

\* onSubmit without its setAnalysisResult(null): the toast and return for a curve of fewer than
\* 2 points, else setIsLoading(true), setAnalysisResult(null) and the call of
\* runAnalysis(values, useStandardCurve).  The submit button is disabled
\* while isLoading.
OnSubmit_NoClear ==
    /\ ~isLoading
    /\ submits < MaxSubmits
    /\ submits' = submits + 1
    /\ IF /\ useStandardCurve
          /\ formValues.standardCurve.defined
          /\ Len(formValues.standardCurve.points) < 2
       THEN /\ toast' = "Standard Curve Error"
            /\ UNCHANGED <<isLoading, analysisResult, forwardTest, pendingRun>>
       ELSE /\ isLoading' = TRUE
            /\ UNCHANGED <<analysisResult, forwardTest>>
            /\ pendingRun' = [useStandardCurve |-> useStandardCurve]
            /\ UNCHANGED toast
    /\ UNCHANGED <<cardVars, curveVars, testVars, fitVars, formValues, useStandardCurve, runOutcome, random>>

\* onSubmit up to its await: the toast and return for a curve of fewer than
\* 2 points, else setIsLoading(true), setAnalysisResult(null) and the call of
\* runAnalysis(values, useStandardCurve).  The submit button is disabled
\* while isLoading.
OnSubmit ==
    /\ ~isLoading
    /\ submits < MaxSubmits
    /\ submits' = submits + 1
    /\ IF /\ useStandardCurve
          /\ formValues.standardCurve.defined
          /\ Len(formValues.standardCurve.points) < 2
       THEN /\ toast' = "Standard Curve Error"
            /\ UNCHANGED <<isLoading, analysisResult, forwardTest, pendingRun>>
       ELSE /\ isLoading' = TRUE
            /\ analysisResult' = Null
            /\ forwardTest' = forwardTestResults(Null, useStandardCurve)
            /\ pendingRun' = [useStandardCurve |-> useStandardCurve]
            /\ UNCHANGED toast
    /\ UNCHANGED <<cardVars, curveVars, testVars, fitVars, formValues, useStandardCurve, runOutcome, random>>

\* analysisResult after the await: setAnalysisResult(result) in the try
\* block; the catch block leaves the state as it is.
ResultAfter(out) ==
    IF out.status = "resolved" THEN out.result ELSE analysisResult

\* The rest of onSubmit for the outcome out of the call in flight:
\* setAnalysisResult(result) and the toast "Analysis Complete", or the toast
\* "Analysis Failed"; finally setIsLoading(false).
SubmitSettles(out) ==
    /\ runOutcome' = [status |-> out.status, result |-> out.result,
                      message |-> out.message,
                      concentrations |-> out.concentrations,
                      draws |-> out.draws,
                      useStandardCurve |-> pendingRun.useStandardCurve]
    /\ random' = out.random
    /\ analysisResult' = ResultAfter(out)
    /\ forwardTest' = forwardTestResults(ResultAfter(out), useStandardCurve)
    /\ toast' = IF out.status = "resolved" THEN "Analysis Complete" ELSE "Analysis Failed"
    /\ isLoading' = FALSE
    /\ pendingRun' = Null

\* The call of runAnalysis in flight runs on the server and settles.
RunAnalysis ==
    /\ pendingRun # Null
    /\ SubmitSettles(runAnalysis(formValues, pendingRun.useStandardCurve, random))
    /\ UNCHANGED <<cardVars, curveVars, testVars, fitVars, formValues, useStandardCurve, submits>>

\* The Use Curve switch: onCheckedChange={setUseStandardCurve}.
ToggleUseStandardCurve ==
    /\ useStandardCurve' = ~useStandardCurve
    /\ forwardTest' = forwardTestResults(analysisResult, ~useStandardCurve)
    /\ UNCHANGED <<cardVars, curveVars, testVars, fitVars, formValues, isLoading, analysisResult, toast,
                   pendingRun, runOutcome, random, submits>>

NextPage == OnSubmit \/ RunAnalysis \/ ToggleUseStandardCurve

\* The hypothesis test, and the regression, each called once.
SpecTest == InitTest /\ [][PerformStatisticalTest]_vars
SpecFit == InitFit /\ [][CalculateLinearRegression]_vars

\* The page: submissions, their analyses and the Use Curve switch.
SpecPage == InitPage /\ [][NextPage]_vars

\* The awaited call settling, seen from the page: the call in flight is gone.
\* RunAnalysis is the only action that takes such a step and it is enabled
\* exactly when a call is in flight.
RunSettles == pendingRun # Null /\ pendingRun' = Null

\* The page with a server that answers: runAnalysis has no unbounded loop
\* and its promise settles, so a call in flight does settle.
SpecPageLive == SpecPage /\ WF_pendingRun(RunSettles)

----------------------------------------------------------------------------
(* The comparison cards: src/unnamed/part_003, onRunTest and the cards     *)

MaxTests == 2
MaxRuns == 2
MaxEdits == 2

\* The indices of the cards shown: statTestFields.map((field, index) => ...).
CardIndices == 0..(Len(statisticalTests) - 1)

\* form.getValues('statisticalTests')[index]
currentTest(index) == statisticalTests[index + 1]

\* testResult?.isLoading for testResult = testResults[index]
LoadingAt(index) ==
    /\ testResults[index] # Null
    /\ testResults[index].isLoading

\* setTestResults({ [testIndex]: entry }): an update that does not spread prev.
setTestResults_Replace(prev, testIndex, entry) ==
    [j \in DOMAIN prev |-> IF j = testIndex THEN entry ELSE Null]

\* setTestResults(prev => ({ ...prev, [testIndex]: entry })) applied to prev;
\* an index without an entry holds Null.
setTestResults(prev, testIndex, entry) ==
    [prev EXCEPT ![testIndex] = entry]

\* groups.find(g => g.name === name): the first group of that name, or Null.
FindGroup(gs, name) ==
    IF \E k \in 1..Len(gs) : gs[k].name = name
    THEN gs[CHOOSE k \in 1..Len(gs) :
                /\ gs[k].name = name
                /\ \A j \in 1..(k - 1) : gs[j].name # name]
    ELSE Null

\* The guards of onRunTest without the comparison of the two names.
Refusal_NoSelfCheck(testData, gs) ==
    IF testData.group1 = "" \/ testData.group2 = ""
    THEN "Please select two groups to compare."
    ELSE IF FindGroup(gs, testData.group1) = Null \/ FindGroup(gs, testData.group2) = Null
    THEN "Could not find selected groups."
    ELSE ""

\* The guards of onRunTest: the title of the toast it returns with, or "".
Refusal(testData, gs) ==
    IF testData.group1 = "" \/ testData.group2 = ""
    THEN "Please select two groups to compare."
    ELSE IF testData.group1 = testData.group2
    THEN "Cannot compare a group to itself."
    ELSE IF FindGroup(gs, testData.group1) = Null \/ FindGroup(gs, testData.group2) = Null
    THEN "Could not find selected groups."
    ELSE ""

\* The group object of testInput built from the group found.
TestGroup(g) ==
    [name |-> g.name, mean |-> g.mean, sd |-> g.sd, samples |-> g.samples]

\* const testInput: StatisticalTestInput = { group1, group2, test }
TestInputOf(testData, gs) ==
    [group1 |-> TestGroup(FindGroup(gs, testData.group1)),
     group2 |-> TestGroup(FindGroup(gs, testData.group2)),
     test |-> testData.test]

\* The entry onRunTest writes after the await for the outcome out.
SettledEntry(out) ==
    IF out.status = "resolved"
    THEN [isLoading |-> FALSE, result |-> [pValue |-> out.pValue]]
    ELSE [isLoading |-> FALSE, result |-> Null]

\* The groups of the form: three named groups; the third has one sample or
\* three.
CardGroups ==
    {<<[name |-> "A", mean |-> FromInt(1), sd |-> One, samples |-> 2],
       [name |-> "B", mean |-> FromInt(2), sd |-> One, samples |-> 2],
       [name |-> "C", mean |-> FromInt(3), sd |-> One, samples |-> n]>> : n \in {1, 3}}

\* The kinds a card's select offers.
CardKinds == {"t-test", "anova"}

\* The cards as the page opens: one comparison of the first two groups.
InitCards ==
    /\ groups \in CardGroups
    /\ statisticalTests = <<[group1 |-> "A", group2 |-> "B", test |-> "t-test"]>>
    /\ testResults = [j \in 0..(MaxTests - 1) |-> Null]
    /\ testCalls = {}
    /\ testToast = ""
    /\ runs = 0
    /\ edits = 0
    /\ testInput = NoCall
    /\ testRun = NoCall
    /\ testWarned = FALSE
    /\ testOutcome = NoCall
    /\ fitPoints = <<>>
    /\ fitResult = NoCall
    /\ formValues = NoCall
    /\ useStandardCurve = FALSE
    /\ isLoading = FALSE
    /\ analysisResult = NoCall
    /\ forwardTest = NoCall
    /\ toast = ""
    /\ pendingRun = NoCall
    /\ runOutcome = NoCall
    /\ random = NoCall
    /\ submits = 0
    /\ NoCurve

\* onRunTest(testIndex, currentTest) up to its await: a toast and return for a
\* selection it refuses, else the entry {isLoading: true, result: null} and
\* the call of performStatisticalTest.  The button is disabled while the
\* entry of its index is loading.
OnRunTest(testIndex) ==
    /\ testIndex \in CardIndices
    /\ ~LoadingAt(testIndex)
    /\ IF Refusal(currentTest(testIndex), groups) # ""
       THEN /\ testToast' = Refusal(currentTest(testIndex), groups)
            /\ UNCHANGED <<testResults, testCalls, runs>>
       ELSE /\ runs < MaxRuns
            /\ runs' = runs + 1
            /\ testResults' = setTestResults(testResults, testIndex,
                                             [isLoading |-> TRUE, result |-> Null])
            /\ testCalls' = testCalls \cup
                   {[testIndex |-> testIndex,
                     testInput |-> TestInputOf(currentTest(testIndex), groups)]}
            /\ UNCHANGED testToast
    /\ UNCHANGED <<groups, statisticalTests, edits>>
    /\ UNCHANGED <<testVars, fitVars, pageVars, curveVars>>

\* The rest of onRunTest for the call in flight and its outcome out: the
\* entry of the call's index and a toast.
TestCallSettles(call, out) ==
    /\ testCalls' = testCalls \ {call}
    /\ testResults' = setTestResults(testResults, call.testIndex, SettledEntry(out))
    /\ testToast' = (IF out.status = "resolved"
                     THEN "Statistical test complete." ELSE "Test Failed")
    /\ UNCHANGED <<groups, statisticalTests, runs, edits>>
    /\ UNCHANGED <<testVars, fitVars, pageVars, curveVars>>

\* A call of performStatisticalTest in flight settles; calls settle in any
\* order.
RunTestSettles ==
    \E call \in testCalls :
        TestCallSettles(call, performStatisticalTest(call.testInput).outcome)

\* The Add Test button: appendStatTest with no group selected.
AppendStatTest ==
    /\ Len(statisticalTests) < MaxTests
    /\ statisticalTests' = Append(statisticalTests,
                                  [group1 |-> "", group2 |-> "", test |-> "t-test"])
    /\ UNCHANGED <<groups, testResults, testCalls, testToast, runs, edits>>
    /\ UNCHANGED <<testVars, fitVars, pageVars, curveVars>>

\* s without its element at position k (useFieldArray's remove).
RemoveAt(s, k) ==
    [j \in 1..(Len(s) - 1) |-> IF j < k THEN s[j] ELSE s[j + 1]]

\* The card's remove button: removeStatTest(index), disabled for the last
\* card left.
RemoveStatTest(index) ==
    /\ index \in CardIndices
    /\ Len(statisticalTests) > 1
    /\ statisticalTests' = RemoveAt(statisticalTests, index + 1)
    /\ UNCHANGED <<groups, testResults, testCalls, testToast, runs, edits>>
    /\ UNCHANGED <<testVars, fitVars, pageVars, curveVars>>

\* The names a card's group selects offer: watchedGroups.map(g => g.name && ...).
OfferedNames == {groups[k].name : k \in 1..Len(groups)} \ {""}

\* A card's selects: Compare Group, With Group and Statistical Test.
SelectGroup1(index, name) ==
    /\ index \in CardIndices
    /\ name \in OfferedNames
    /\ edits < MaxEdits
    /\ edits' = edits + 1
    /\ statisticalTests' = [statisticalTests EXCEPT ![index + 1].group1 = name]
    /\ UNCHANGED <<groups, testResults, testCalls, testToast, runs>>
    /\ UNCHANGED <<testVars, fitVars, pageVars, curveVars>>

SelectGroup2(index, name) ==
    /\ index \in CardIndices
    /\ name \in OfferedNames
    /\ edits < MaxEdits
    /\ edits' = edits + 1
    /\ statisticalTests' = [statisticalTests EXCEPT ![index + 1].group2 = name]
    /\ UNCHANGED <<groups, testResults, testCalls, testToast, runs>>
    /\ UNCHANGED <<testVars, fitVars, pageVars, curveVars>>

SelectTest(index, kind) ==
    /\ index \in CardIndices
    /\ kind \in CardKinds
    /\ edits < MaxEdits
    /\ edits' = edits + 1
    /\ statisticalTests' = [statisticalTests EXCEPT ![index + 1].test = kind]
    /\ UNCHANGED <<groups, testResults, testCalls, testToast, runs>>
    /\ UNCHANGED <<testVars, fitVars, pageVars, curveVars>>

\* A group's remove button: removeGroup(index), disabled for the last group
\* left.  The comparisons keep the names they selected.
RemoveGroup(index) ==
    /\ index \in 0..(Len(groups) - 1)
    /\ Len(groups) > 1
    /\ edits < MaxEdits
    /\ edits' = edits + 1
    /\ groups' = RemoveAt(groups, index + 1)
    /\ UNCHANGED <<statisticalTests, testResults, testCalls, testToast, runs>>
    /\ UNCHANGED <<testVars, fitVars, pageVars, curveVars>>

NextCards ==
    \/ \E i \in 0..(MaxTests - 1) : OnRunTest(i)
    \/ RunTestSettles
    \/ AppendStatTest
    \/ \E i \in 0..(MaxTests - 1) : RemoveStatTest(i)
    \/ \E i \in 0..(MaxTests - 1), name \in {"A", "B", "C"} : SelectGroup1(i, name)
    \/ \E i \in 0..(MaxTests - 1), name \in {"A", "B", "C"} : SelectGroup2(i, name)
    \/ \E i \in 0..(MaxTests - 1), kind \in CardKinds : SelectTest(i, kind)
    \/ \E i \in 0..2 : RemoveGroup(i)

\* The comparison cards of the page.
SpecCards == InitCards /\ [][NextCards]_vars

----------------------------------------------------------------------------
(* The curve editor: autoFillAbsorbance of src/unnamed/part_003 and        *)
(* src/src/app/page.tsx, and the one of src/unnamed/part_002               *)

MaxFillPoints == 3

\* A value of a form field: a number (a default value, a value set by
\* update) or the text of an <Input type="number"> the user typed into.
NumberValue(n) == [t |-> "number", n |-> n]
StringValue(s) == [t |-> "string", s |-> s]

\* parseFloat(s) for the texts of the inputs.
parseFloat(s) ==
    CASE s = "" -> NaN
      [] s = "0" -> FromInt(0)
      [] s = "1" -> FromInt(1)
      [] s = "2" -> FromInt(2)

\* typeof v === 'string' ? parseFloat(v) : v
Parsed(v) == IF v.t = "string" THEN parseFloat(v.s) ELSE v.n

\* The number an operand of the operator - is converted to: the empty text
\* is 0.
ToNumber(v) ==
    IF v.t = "number" THEN v.n
    ELSE IF v.s = "" THEN FromInt(0) ELSE parseFloat(v.s)

\* a === b: values of different types are not equal.
StrictEquals(a, b) ==
    /\ a.t = b.t
    /\ IF a.t = "number" THEN FEq(a.n, b.n) ELSE a.s = b.s

\* x.toFixed(4): the text of x in ten-thousandths, "Infinity" or "NaN".
toFixed4(x) ==
    IF IsFinite(x)
    THEN [k |-> "fin",
          tenThousandths |-> SignInt(x.v) * ((AbsInt(x.v) * 10000 + SCALE \div 2) \div SCALE)]
    ELSE [k |-> x.k, tenThousandths |-> 0]

\* parseFloat of such a text.  The grid has three decimals, so the four
\* decimals of the text lose none of a number of the grid.
parseFixed(text) ==
    IF text.k = "fin"
    THEN Norm(SignInt(text.tenThousandths)
                * ((AbsInt(text.tenThousandths) * SCALE + 5000) \div 10000))
    ELSE IF text.k = "nan" THEN NaN
    ELSE IF text.k = "inf" THEN PInf ELSE NInf

\* const slope = ... of part_003 and page.tsx
fillSlope(firstPoint, lastPoint) ==
    FDiv(FSub(Parsed(lastPoint.absorbance), Parsed(firstPoint.absorbance)),
         FSub(ToNumber(lastPoint.concentration), ToNumber(firstPoint.concentration)))

\* const slope = ... of part_002: firstPoint.concentration - lastPoint.concentration
fillSlopeOld(firstPoint, lastPoint) ==
    FDiv(FSub(Parsed(lastPoint.absorbance), Parsed(firstPoint.absorbance)),
         FSub(ToNumber(firstPoint.concentration), ToNumber(lastPoint.concentration)))

\* The body of the for-loop for one intermediate point.
fillPoint(point, firstPoint, slope) ==
    IF IsNaN(Parsed(point.concentration)) \/ IsNaN(Parsed(firstPoint.concentration))
    THEN point
    ELSE [point EXCEPT !.absorbance =
            NumberValue(parseFixed(toFixed4(
                FAdd(Parsed(firstPoint.absorbance),
                     FMul(slope, FSub(Parsed(point.concentration),
                                      Parsed(firstPoint.concentration)))))))]

\* The for-loop: for (let i = 1; i < points.length - 1; i++)
fillLoop(pts, slope) ==
    [i \in 1..Len(pts) |->
        IF 1 < i /\ i < Len(pts) THEN fillPoint(pts[i], pts[1], slope) ELSE pts[i]]

\* autoFillAbsorbance on the points pts with the slope of its version: the
\* points it leaves and the title of its toast.
autoFill(pts, slope) ==
    IF Len(pts) < 2
    THEN [curve |-> pts, toast |-> "Not enough data points"]
    ELSE IF StrictEquals(pts[1].concentration, pts[Len(pts)].concentration)
    THEN [curve |-> pts, toast |-> "Invalid concentrations"]
    ELSE IF \/ IsNaN(Parsed(pts[1].absorbance))
            \/ IsNaN(Parsed(pts[Len(pts)].absorbance))
    THEN [curve |-> pts, toast |-> "Invalid absorbance values"]
    ELSE [curve |-> fillLoop(pts, slope), toast |-> "Auto-fill Complete"]

\* The curves the editor can hold: default and appended points are numbers,
\* typed fields are texts.
FirstFillPoints ==
    [concentration : {NumberValue(FromInt(0)), StringValue("0"), StringValue("")},
     absorbance : {NumberValue(FromInt(0)), StringValue("1"), StringValue("")}]
MidFillPoints ==
    [concentration : {NumberValue(FromInt(1)), StringValue("1"), StringValue("")},
     absorbance : {NumberValue(FromInt(0)), StringValue("")}]
LastFillPoints ==
    [concentration : {NumberValue(FromInt(0)), StringValue("0"),
                      NumberValue(FromInt(2)), StringValue("2")},
     absorbance : {NumberValue(FromInt(2)), StringValue("2"), NumberValue(FromInt(0))}]
FillCurves ==
    {<<>>}
    \cup {<<f>> : f \in FirstFillPoints}
    \cup UNION {{<<f>> \o mid \o <<l>> :
                    f \in FirstFillPoints, l \in LastFillPoints,
                    mid \in [1..n -> MidFillPoints]} : n \in 0..(MaxFillPoints - 2)}

\* The editor holds a curve and autoFillAbsorbance has not run.
InitFill ==
    /\ standardCurve \in FillCurves
    /\ filledFrom = <<>>
    /\ fillToast = ""
    /\ testInput = NoCall
    /\ testRun = NoCall
    /\ testWarned = FALSE
    /\ testOutcome = NoCall
    /\ fitPoints = <<>>
    /\ fitResult = NoCall
    /\ formValues = NoCall
    /\ useStandardCurve = FALSE
    /\ isLoading = FALSE
    /\ analysisResult = NoCall
    /\ forwardTest = NoCall
    /\ toast = ""
    /\ pendingRun = NoCall
    /\ runOutcome = NoCall
    /\ random = NoCall
    /\ submits = 0
    /\ NoCards

\* The button's handler ends as r says.
FillEnds(r) ==
    /\ filledFrom' = standardCurve
    /\ standardCurve' = r.curve
    /\ fillToast' = r.toast
    /\ UNCHANGED <<testVars, fitVars, pageVars, cardVars>>

\* The Auto-fill button of part_003 and of page.tsx.
AutoFillAbsorbance ==
    /\ fillToast = ""
    /\ FillEnds(autoFill(standardCurve,
                         IF Len(standardCurve) < 2 THEN NaN
                         ELSE fillSlope(standardCurve[1],
                                        standardCurve[Len(standardCurve)])))

\* The Auto-fill button of part_002.
AutoFillAbsorbanceOld ==
    /\ fillToast = ""
    /\ FillEnds(autoFill(standardCurve,
                         IF Len(standardCurve) < 2 THEN NaN
                         ELSE fillSlopeOld(standardCurve[1],
                                           standardCurve[Len(standardCurve)])))

NextFill == AutoFillAbsorbance \/ AutoFillAbsorbanceOld

\* The curve editor under its Auto-fill button.
SpecFill == InitFill /\ [][NextFill]_vars

----------------------------------------------------------------------------
(* Properties                                                              *)

\* The call of performStatisticalTest has settled.
TestDone == testOutcome # Pending /\ testOutcome # NoCall

\* The call of calculateLinearRegression has returned.
FitDone == fitResult # Pending /\ fitResult # NoCall

\* The statistics studentsTTest receives for a group of the input.
Stats(g) == [mean |-> g.mean, sd |-> g.sd, n |-> g.samples]

\* Both groups of the input have finite statistics and at least 2 samples.
FiniteInput ==
    /\ IsFinite(testInput.group1.mean) /\ IsFinite(testInput.group1.sd)
    /\ IsFinite(testInput.group2.mean) /\ IsFinite(testInput.group2.sd)
    /\ testInput.group1.samples >= 2
    /\ testInput.group2.samples >= 2

\* |mean1 - mean2| in grid units, for finite means.
Gap(mean1, mean2) == AbsInt(mean1.v - mean2.v)

\* C1: with n1, n2 >= 2 and a pooled standard deviation of exactly 0
\* (sd1 = sd2 = 0) the test yields the p-value 1.0 for equal means and 0.0
\* for different means; it neither fails nor yields NaN.
C1_ZeroPooledSd ==
    (/\ TestDone
     /\ FiniteInput
     /\ testInput.group1.sd = Fin(0)
     /\ testInput.group2.sd = Fin(0))
    => /\ testOutcome.status = "resolved"
       /\ testRun.p = (IF testInput.group1.mean = testInput.group2.mean
                       THEN One ELSE Fin(0))

\* C2: groups with identical statistics (equal means, equal sd > 0, equal
\* n >= 2) get a p-value close to 1 (at least 0.99), never the minimum 0.
C2_IdenticalGroups ==
    (/\ TestDone
     /\ FiniteInput
     /\ testInput.group1 = testInput.group2
     /\ testInput.group1.sd.v > 0)
    => /\ FLe(Fin(SCALE - SCALE \div 100), testRun.p)
       /\ testRun.p # Fin(0)

\* C3: for fixed sd1, sd2 > 0 and fixed n1, n2 >= 2, a strictly larger
\* |mean1 - mean2| gives a strictly smaller p-value: every first mean that
\* is further from mean2 than the one tested has a smaller p-value.
C3_Monotone ==
    (/\ TestDone
     /\ FiniteInput
     /\ testInput.group1.sd.v > 0
     /\ testInput.group2.sd.v > 0)
    => \A i \in 1..MaxMean :
          Gap(FromInt(i), testInput.group2.mean)
              > Gap(testInput.group1.mean, testInput.group2.mean)
          => FLt(studentsTTest([mean |-> FromInt(i),
                                sd |-> testInput.group1.sd,
                                n |-> testInput.group1.samples],
                               Stats(testInput.group2)).p,
                 testRun.p)

\* C4: a test kind other than 't-test' ends in a reported failure; no
\* p-value of the t-test is returned for it.
C4_UnsupportedKind ==
    (TestDone /\ testInput.test # "t-test") => testOutcome.status = "rejected"

\* C5: with n1 <= 1 or n2 <= 1 studentsTTest returns NaN, whatever the means
\* and standard deviations, and evaluates neither the pooled SD, nor the
\* t-statistic, nor tDistr and its continued fraction.
C5_TooFewSamples ==
    (/\ TestDone
     /\ \/ testInput.group1.samples <= 1
        \/ testInput.group2.samples <= 1)
    => /\ IsNaN(testRun.p)
       /\ testRun.steps = {}
       /\ testRun.cf = <<>>

\* C5 happens: a settled call with one sample in the first group only.
C5_Witness ==
    /\ TestDone
    /\ testInput.group1.samples = 1
    /\ testInput.group2.samples >= 2
    /\ IsFinite(testInput.group1.sd)
    /\ IsNaN(testRun.p)

\* C6: studentsTTest(A, B) and studentsTTest(B, A) give the same result:
\* the same p-value, or NaN both.
C6_Symmetry ==
    TestDone =>
        studentsTTest(Stats(testInput.group2), Stats(testInput.group1)).p = testRun.p

\* C6 happens: a settled call on groups that differ in mean, sd and n, with
\* a p-value strictly between 0 and 1.
C6_Witness ==
    /\ TestDone
    /\ FiniteInput
    /\ testInput.group1.mean # testInput.group2.mean
    /\ testInput.group1.sd # testInput.group2.sd
    /\ testInput.group1.samples # testInput.group2.samples
    /\ FLt(Fin(0), testRun.p)
    /\ FLt(testRun.p, One)

\* C7: every result of the hypothesis test is NaN or a p with 0 <= p <= 1.
C7_Range ==
    TestDone =>
        \/ IsNaN(testRun.p)
        \/ FLe(Fin(0), testRun.p) /\ FLe(testRun.p, One)

\* C8: betacf is never entered with a NaN or infinite argument.
C8_FiniteIntoBetacf ==
    TestDone => \A i \in 1..Len(testRun.cf) : IsFinite(testRun.cf[i].x)

\* C9: performStatisticalTest never resolves with a NaN pValue; whenever
\* studentsTTest yields NaN the call is rejected with a message and carries
\* no result.
C9_NaNChecked ==
    TestDone =>
        /\ testOutcome.status \in {"resolved", "rejected"}
        /\ testOutcome.status = "resolved"
             => ~IsNaN(testOutcome.pValue) /\ testOutcome.pValue = testRun.p
        /\ IsNaN(testRun.p)
             => testOutcome.status = "rejected" /\ testOutcome.message # ""

\* C9 happens: studentsTTest got past its guard and still yielded NaN, and
\* the call was rejected.
C9_Witness ==
    /\ TestDone
    /\ testInput.group1.samples >= 2
    /\ testInput.group2.samples >= 2
    /\ IsNaN(testRun.p)
    /\ testOutcome.status = "rejected"

\* The undefined sentinel of the regression.
Sentinel == [m |-> NaN, c |-> NaN, rSquare |-> Fin(0)]

\* All points share the same x.
AllSameX(points) == \A i, j \in 1..Len(points) : points[i].x = points[j].x

\* C10: calculateLinearRegression returns the sentinel (slope NaN, intercept
\* NaN, rSquare 0) for fewer than 2 points and for points that all share
\* the same x, and a non-NaN slope and intercept for every other input.
C10_Sentinel ==
    FitDone =>
        IF Len(fitPoints) < 2 \/ AllSameX(fitPoints)
        THEN fitResult = Sentinel
        ELSE ~IsNaN(fitResult.m) /\ ~IsNaN(fitResult.c)

\* Three points lie on one line (grid units, exact integer arithmetic).
OnOneLine(p, q, r) ==
    (q.x.v - p.x.v) * (r.y.v - p.y.v) = (r.x.v - p.x.v) * (q.y.v - p.y.v)

\* All points lie exactly on one line.
Collinear(points) ==
    \A i, j, k \in 1..Len(points) : OnOneLine(points[i], points[j], points[k])

\* The tolerance of a comparison of computed numbers: 1/10.
Tol == Fin(SCALE \div 10)

\* Two finite numbers are equal within the tolerance.
Near(u, w) == IsFinite(u) /\ IsFinite(w) /\ FLe(FAbs(FSub(u, w)), Tol)

\* The result is the line through the points p and q of different x, with
\* rSquare 1, within the tolerance.
FitsLine(res, p, q) ==
    /\ Near(res.m, FDiv(FSub(q.y, p.y), FSub(q.x, p.x)))
    /\ Near(res.c, FSub(p.y, FMul(FDiv(FSub(q.y, p.y), FSub(q.x, p.x)), p.x)))
    /\ Near(res.rSquare, One)

\* C11: for at least 2 points with two distinct x that lie exactly on a line
\* y = a*x + b (the horizontal line a = 0 included) the regression returns
\* slope a, intercept b and rSquare 1.
C11_ExactFit ==
    (/\ FitDone
     /\ Len(fitPoints) >= 2
     /\ ~AllSameX(fitPoints)
     /\ Collinear(fitPoints))
    => \A i, j \in 1..Len(fitPoints) :
          fitPoints[i].x # fitPoints[j].x
          => FitsLine(fitResult, fitPoints[i], fitPoints[j])

\* C12: a defined fit (slope and intercept not NaN) has 0 <= rSquare <= 1.
C12_RSquareRange ==
    (FitDone /\ ~IsNaN(fitResult.m) /\ ~IsNaN(fitResult.c))
    => FLe(Fin(0), fitResult.rSquare) /\ FLe(fitResult.rSquare, One)

\* A call of runAnalysis has settled.
RunDone == runOutcome # NoCall

\* The curve of the form is missing, has fewer than 2 points, or all its
\* points share the same concentration.
UnusableCurve ==
    \/ ~formValues.standardCurve.defined
    \/ Len(formValues.standardCurve.points) < 2
    \/ \A i, j \in 1..Len(formValues.standardCurve.points) :
          formValues.standardCurve.points[i].concentration
              = formValues.standardCurve.points[j].concentration

\* The outcome of a call of runAnalysis is a reported failure without any
\* result: no AnalysisResult and no generated value.
FailedWithoutResult(out) ==
    /\ out.status = "rejected"
    /\ out.message # ""
    /\ out.result = Null
    /\ out.concentrations = <<>>

\* C13: with useStandardCurve = true and a curve that is missing, has fewer
\* than 2 points or has an undefined fit (all points at one concentration),
\* runAnalysis fails with a reported error and returns no AnalysisResult:
\* so does the call that settled, and so does a call with a curve of fewer
\* than 2 points, which onSubmit does not let through.
C13_CurveRequired ==
    UnusableCurve =>
        /\ (RunDone /\ runOutcome.useStandardCurve)
               => FailedWithoutResult(runOutcome) /\ analysisResult = Null
        /\ Len(formValues.standardCurve.points) < 2
               => FailedWithoutResult(runAnalysis(formValues, TRUE, random))

\* The AnalysisResult of the call that settled is the one the page shows:
\* the forward test is computed from it.
ResultShown == RunDone /\ runOutcome.status = "resolved" /\ analysisResult = runOutcome.result

\* The curve of the form has two points of different concentration and all
\* its points lie exactly on one line that is not horizontal.
ExactSlopedCurve ==
    /\ formValues.standardCurve.defined
    /\ Collinear(CurveToPoints(formValues.standardCurve.points))
    /\ \E i, j \in 1..Len(formValues.standardCurve.points) :
          /\ formValues.standardCurve.points[i].concentration
                 # formValues.standardCurve.points[j].concentration
          /\ formValues.standardCurve.points[i].absorbance
                 # formValues.standardCurve.points[j].absorbance

\* The group g went through the pipeline unchanged: n synthesized values
\* equal to the mean, n responses m * mean + c, n recovered concentrations
\* equal to the mean, recovered mean equal to the mean and recovered SD 0.
RoundTrip(g, mc) ==
    /\ Len(runOutcome.concentrations[g]) = formValues.groups[g].samples
    /\ Len(forwardTest.groups[g].sampleData) = formValues.groups[g].samples
    /\ \A i \in 1..formValues.groups[g].samples :
          /\ runOutcome.concentrations[g][i] = formValues.groups[g].mean
          /\ Near(analysisResult.groupResults[g].values[i],
                  FAdd(FMul(mc.m, formValues.groups[g].mean), mc.c))
          /\ Near(forwardTest.groups[g].sampleData[i].concentration,
                  formValues.groups[g].mean)
    /\ Near(forwardTest.groups[g].concentrationMean, formValues.groups[g].mean)
    /\ Near(forwardTest.groups[g].concentrationSD, Fin(0))

C15_Identity ==
    (ResultShown /\ ~runOutcome.useStandardCurve)
    => /\ analysisResult.standardCurve = Null
       /\ \A g \in 1..Len(formValues.groups) :
             /\ analysisResult.groupResults[g].values = runOutcome.concentrations[g]
             /\ \A i \in 1..Len(runOutcome.concentrations[g]) :
                   forwardTest.groups[g].sampleData[i].concentration
                       = runOutcome.concentrations[g][i]

\* C15 happens: a run without the curve of a group with sd 1 and 2 samples,
\* whose two values differ from the mean and from each other, while the
\* form holds a usable curve.
C15_Witness ==
    /\ ResultShown
    /\ ~runOutcome.useStandardCurve
    /\ ~useStandardCurve
    /\ ExactSlopedCurve
    /\ formValues.groups[1].sd = One
    /\ Len(analysisResult.groupResults[1].values) = 2
    /\ analysisResult.groupResults[1].values[1] # analysisResult.groupResults[1].values[2]
    /\ analysisResult.groupResults[1].values[1] # formValues.groups[1].mean
    /\ forwardTest.groups[1].sampleData[2].concentration
           = analysisResult.groupResults[1].values[2]

\* C16: a run with the curve and a defined fit (m, c) returns m * x + c for
\* the synthesized concentration x at each index, and the forward test
\* recovers each concentration as (value - c) / m with the m and c returned.
C16_Transform ==
    (ResultShown /\ runOutcome.useStandardCurve /\ useStandardCurve)
    => /\ analysisResult.standardCurve # Null
       /\ ~IsNaN(analysisResult.standardCurve.m)
       /\ ~IsNaN(analysisResult.standardCurve.c)
       /\ \A g \in 1..Len(formValues.groups) :
             /\ Len(analysisResult.groupResults[g].values)
                    = Len(runOutcome.concentrations[g])
             /\ \A i \in 1..Len(runOutcome.concentrations[g]) :
                   /\ analysisResult.groupResults[g].values[i]
                          = FAdd(FMul(analysisResult.standardCurve.m,
                                      runOutcome.concentrations[g][i]),
                                 analysisResult.standardCurve.c)
                   /\ forwardTest.groups[g].sampleData[i].concentration
                          = FDiv(FSub(analysisResult.groupResults[g].values[i],
                                      analysisResult.standardCurve.c),
                                 analysisResult.standardCurve.m)

\* C16 happens: a run through the curve y = 2x + 1 of a group with sd 1,
\* whose first concentration is not the mean.
C16_Witness ==
    /\ ResultShown
    /\ runOutcome.useStandardCurve
    /\ useStandardCurve
    /\ analysisResult.standardCurve.m = FromInt(2)
    /\ analysisResult.standardCurve.c = One
    /\ formValues.groups[1].sd = One
    /\ runOutcome.concentrations[1][1] # formValues.groups[1].mean
    /\ analysisResult.groupResults[1].values[1] # runOutcome.concentrations[1][1]
    /\ Near(forwardTest.groups[1].sampleData[1].concentration,
            runOutcome.concentrations[1][1])

\* The recovered concentrations of the group g of the forward test.
Recovered(g) ==
    [i \in 1..Len(forwardTest.groups[g].sampleData) |->
        forwardTest.groups[g].sampleData[i].concentration]

\* The sum of the numbers of a sequence, from the left.
RECURSIVE SumOf(_)
SumOf(data) ==
    IF data = <<>> THEN Fin(0)
    ELSE FAdd(SumOf(SubSeq(data, 1, Len(data) - 1)), data[Len(data)])

\* The squared deviations of the numbers of a sequence from mean.
SquaredDeviations(data, mean) ==
    [i \in 1..Len(data) |-> FMul(FSub(data[i], mean), FSub(data[i], mean))]

\* The sample standard deviation (divisor n - 1) of at least 2 numbers.
SampleSD(data) ==
    FSqrt(FDiv(SumOf(SquaredDeviations(data, FDiv(SumOf(data), FromInt(Len(data))))),
               FromInt(Len(data) - 1)))

\* C17: the forward test gives, for every group, the mean sum / n and the
\* standard deviation with divisor n - 1 of the recovered concentrations,
\* and the SD 0 for a group of a single sample.
C17_ForwardStatistics ==
    ResultShown =>
        \A g \in 1..Len(forwardTest.groups) :
            /\ forwardTest.groups[g].concentrationMean
                   = FDiv(SumOf(Recovered(g)), FromInt(Len(Recovered(g))))
            /\ forwardTest.groups[g].concentrationSD
                   = (IF Len(Recovered(g)) < 2 THEN Fin(0) ELSE SampleSD(Recovered(g)))

\* C17 happens: the forward test of a group of one sample and of a group of
\* two samples that differ, whose SD is not 0.
C17_Witness ==
    /\ ResultShown
    /\ Len(forwardTest.groups) = 2
    /\ Len(forwardTest.groups[1].sampleData) = 1
    /\ forwardTest.groups[1].concentrationSD = Fin(0)
    /\ Len(forwardTest.groups[2].sampleData) = 2
    /\ Recovered(2)[1] # Recovered(2)[2]
    /\ IsFinite(forwardTest.groups[2].concentrationSD)
    /\ FLt(Fin(0), forwardTest.groups[2].concentrationSD)

\* C18: generateNormalDistribution(mean, 0, n) returns n values that all
\* equal mean, whatever the generator returns.
C18_ZeroSd ==
    (RunDone /\ runOutcome.status = "resolved")
    => \A g \in 1..Len(formValues.groups) :
          formValues.groups[g].sd = Fin(0)
          => runOutcome.concentrations[g]
                 = [i \in 1..formValues.groups[g].samples |-> formValues.groups[g].mean]

\* C18 happens: two values were generated with sd 0 from a generator whose
\* first value, a 0, was discarded.
C18_Witness ==
    /\ RunDone
    /\ runOutcome.status = "resolved"
    /\ formValues.groups[1].sd = Fin(0)
    /\ formValues.groups[1].samples = 2
    /\ random.seq[1] = Fin(0)
    /\ runOutcome.concentrations[1]
           = <<formValues.groups[1].mean, formValues.groups[1].mean>>

\* C19: runAnalysis returns one group result per input group, in the order
\* of the input and under the group's name, each with exactly `samples`
\* values, and sample i of the forward test is the i-th generated value.
C19_Shape ==
    ResultShown =>
        /\ Len(analysisResult.groupResults) = Len(formValues.groups)
        /\ Len(forwardTest.groups) = Len(formValues.groups)
        /\ \A g \in 1..Len(formValues.groups) :
              /\ analysisResult.groupResults[g].groupName = formValues.groups[g].name
              /\ forwardTest.groups[g].groupName = formValues.groups[g].name
              /\ Len(runOutcome.concentrations[g]) = formValues.groups[g].samples
              /\ Len(analysisResult.groupResults[g].values) = formValues.groups[g].samples
              /\ Len(forwardTest.groups[g].sampleData) = formValues.groups[g].samples
              /\ \A i \in 1..formValues.groups[g].samples :
                    /\ forwardTest.groups[g].sampleData[i].sample = i
                    /\ useStandardCurve
                          => forwardTest.groups[g].sampleData[i].absorbance
                                 = analysisResult.groupResults[g].values[i]
                    /\ ~useStandardCurve
                          => forwardTest.groups[g].sampleData[i].concentration
                                 = analysisResult.groupResults[g].values[i]

\* C19 happens: two groups of different names and different numbers of
\* samples came back in order.
C19_Witness ==
    /\ ResultShown
    /\ Len(formValues.groups) = 2
    /\ formValues.groups[1].samples = 1
    /\ formValues.groups[2].samples = 2
    /\ analysisResult.groupResults[1].groupName = "A"
    /\ analysisResult.groupResults[2].groupName = "B"
    /\ Len(analysisResult.groupResults[1].values) = 1
    /\ Len(analysisResult.groupResults[2].values) = 2

\* Every position of every generator explored.
GeneratorStates ==
    UNION {[seq : {r.seq}, pos : 1..Len(r.seq)] : r \in RandomStates}

\* C20: the output of runAnalysis is a function of its arguments alone (no
\* random source is among them): whatever the state of a generator outside
\* the arguments, the call on the same values gives the outcome that the
\* settled call gave.
C20_Reproducible ==
    RunDone =>
        \A r \in GeneratorStates :
            /\ runAnalysis(formValues, runOutcome.useStandardCurve, r).status
                   = runOutcome.status
            /\ runAnalysis(formValues, runOutcome.useStandardCurve, r).result
                   = runOutcome.result

\* C21: the loop of betacf performs at most MAXIT = 100 iterations for every
\* argument, also when its convergence test never becomes true (a NaN
\* argument), so every call of studentsTTest comes to its end.
C21_BetacfCapped ==
    TestDone =>
        \A i \in 1..Len(testRun.cf) :
            testRun.cf[i].iters >= 1 /\ testRun.cf[i].iters <= MAXIT

\* C21 happens: betacf was entered with a NaN argument, never converged and
\* stopped after MAXIT iterations.
C21_Witness ==
    /\ TestDone
    /\ Len(testRun.cf) = 1
    /\ IsNaN(testRun.cf[1].x)
    /\ testRun.cf[1].iters = MAXIT

\* C22: no two groups of the same name reach the pipeline: the group
\* results of a call of runAnalysis that resolved carry pairwise different
\* names, so a lookup by name finds exactly one group.
C22_UniqueNames ==
    (RunDone /\ runOutcome.status = "resolved")
    => \A g, h \in 1..Len(runOutcome.result.groupResults) :
          g # h => runOutcome.result.groupResults[g].groupName
                       # runOutcome.result.groupResults[h].groupName

\* C23: in generateNormalDistribution both uniforms behind every value are
\* nonzero (a draw of 0 is discarded and drawn again), and every accepted
\* pair (u1, u2) gives exactly one value, the one the Box-Muller formula
\* makes of it; the call finishes when the generator does not return 0 forever.
C23_NonzeroUniforms ==
    (RunDone /\ runOutcome.status = "resolved")
    => \A g \in 1..Len(formValues.groups) :
          /\ Len(runOutcome.draws[g]) = formValues.groups[g].samples
          /\ Len(runOutcome.concentrations[g]) = Len(runOutcome.draws[g])
          /\ \A i \in 1..Len(runOutcome.draws[g]) :
                /\ runOutcome.draws[g][i].u1 \in Uniforms \ {Fin(0)}
                /\ runOutcome.draws[g][i].u2 \in Uniforms \ {Fin(0)}
                /\ IsFinite(runOutcome.concentrations[g][i])
                /\ runOutcome.concentrations[g][i]
                       = FAdd(FMul(BoxMuller(runOutcome.draws[g][i].u1,
                                             runOutcome.draws[g][i].u2),
                                   formValues.groups[g].sd),
                              formValues.groups[g].mean)

\* C23 happens: a generator that returns 0 at every fourth call served two
\* values of a group; more calls were made than uniforms were used.
C23_Witness ==
    /\ RunDone
    /\ runOutcome.status = "resolved"
    /\ random.seq[1] = Fin(0)
    /\ Len(formValues.groups) = 1
    /\ Len(runOutcome.draws[1]) = 2
    /\ runOutcome.draws[1][1].u1 # Fin(0)
    /\ runOutcome.draws[1][2].u2 # Fin(0)
    /\ formValues.groups[1].sd = One

\* C24: a run with the curve that succeeds returns a slope m that is not 0,
\* and the forward test of its result gives a finite recovered
\* concentration for every sample and a finite mean and SD for every group.
C24_InvertibleCurve ==
    (ResultShown /\ runOutcome.useStandardCurve /\ useStandardCurve)
    => /\ ~IsZero(analysisResult.standardCurve.m)
       /\ \A g \in 1..Len(forwardTest.groups) :
             /\ IsFinite(forwardTest.groups[g].concentrationMean)
             /\ IsFinite(forwardTest.groups[g].concentrationSD)
             /\ \A i \in 1..Len(forwardTest.groups[g].sampleData) :
                   IsFinite(forwardTest.groups[g].sampleData[i].concentration)

\* C26: the forward test of the result shown follows the mode of the run
\* that produced it, whatever the Use Curve switch says now: recovered
\* concentrations are (value - c) / m after a run with the curve and the
\* values themselves after a run without it.
C26_ModeOfRun ==
    ResultShown =>
        \A g \in 1..Len(forwardTest.groups) :
            \A i \in 1..Len(forwardTest.groups[g].sampleData) :
                forwardTest.groups[g].sampleData[i].concentration
                    = (IF runOutcome.useStandardCurve
                       THEN FDiv(FSub(analysisResult.groupResults[g].values[i],
                                      analysisResult.standardCurve.c),
                                 analysisResult.standardCurve.m)
                       ELSE analysisResult.groupResults[g].values[i])

\* C27: an onSubmit that set isLoading sets it back to false, whether
\* runAnalysis resolves or rejects; while the call is in flight the previous
\* analysisResult is cleared, after a failed run analysisResult is null and
\* after a successful run it is the value runAnalysis returned.
C27_LoadingEnds ==
    /\ [](isLoading => analysisResult = Null /\ pendingRun # Null)
    /\ []((~isLoading /\ RunDone)
            => analysisResult = (IF runOutcome.status = "rejected"
                                 THEN Null ELSE runOutcome.result))
    /\ (isLoading ~> ~isLoading)

\* C27 happens: a second submission, made after a run, has failed and left
\* no result and no loading flag.
C27_Witness ==
    /\ submits = 2
    /\ RunDone
    /\ runOutcome.status = "rejected"
    /\ ~formValues.standardCurve.defined
    /\ ~isLoading
    /\ analysisResult = Null

\* The result shown under the card of index k: testResult?.result.
ShownAt(k) ==
    IF testResults[k] = Null THEN Null ELSE testResults[k].result

\* The result a run of the card of index k would give for its selection now.
ResultNow(k) ==
    SettledEntry(performStatisticalTest(
                     TestInputOf(currentTest(k), groups)).outcome).result

\* C25: the result shown under comparison #k, whose selected groups exist, is
\* the result of performStatisticalTest for the group pair and test kind the
\* comparison has now.
C25_ResultOfCurrentPair ==
    \A k \in CardIndices :
        (ShownAt(k) # Null /\ Refusal(currentTest(k), groups) = "")
            => ShownAt(k) = ResultNow(k)

\* onRunTest(i) takes this step and starts a call.
StartsAt(i) == OnRunTest(i) /\ testCalls' # testCalls

\* This step is the completion of a call made for the index i.
SettlesAt(i) ==
    \E call \in testCalls :
        /\ call.testIndex = i
        /\ TestCallSettles(call, performStatisticalTest(call.testInput).outcome)

\* Every entry but the one of index i is what it was.
OthersKept(i) ==
    \A j \in DOMAIN testResults : j # i => testResults'[j] = testResults[j]

\* C28: a start or a completion of the test of index i changes no entry of
\* testResults but the one of index i, whatever else is in flight and in
\* whatever order the calls settle; when no call is in flight no entry is
\* loading.
C28_OwnEntryOnly ==
    /\ [][\A i \in 0..(MaxTests - 1) : (StartsAt(i) \/ SettlesAt(i)) => OthersKept(i)]_vars
    /\ [](testCalls = {} => \A j \in DOMAIN testResults : ~LoadingAt(j))

\* C28 happens: the tests of two comparisons are in flight together and each
\* entry shows its own loading flag.
C28_Witness ==
    /\ Cardinality(testCalls) = 2
    /\ LoadingAt(0)
    /\ LoadingAt(1)

\* The toasts onRunTest returns with.
RefusalTitles ==
    {"Please select two groups to compare.",
     "Cannot compare a group to itself.",
     "Could not find selected groups."}

\* No group of the form has the name.
NoGroupNamed(name) == \A k \in 1..Len(groups) : groups[k].name # name

\* A selection onRunTest must refuse: a name is empty, the names are equal,
\* or a name is the name of no group.
Invalid(testData) ==
    \/ testData.group1 = ""
    \/ testData.group2 = ""
    \/ testData.group1 = testData.group2
    \/ NoGroupNamed(testData.group1)
    \/ NoGroupNamed(testData.group2)

\* C29: onRunTest for a selection with an empty name, two equal names or a
\* name of no group calls nothing and leaves testResults as it is; it only
\* shows one of its error toasts.
C29_RefusedRun ==
    [][\A i \in 0..(MaxTests - 1) :
          (i \in CardIndices /\ Invalid(currentTest(i)) /\ OnRunTest(i))
              => /\ testResults' = testResults
                 /\ testCalls' = testCalls
                 /\ runs' = runs
                 /\ testToast' \in RefusalTitles]_vars

\* C29 happens: a comparison that has a result was set to compare a group to
\* itself and run again; the run was refused and the entry is as it was.
C29_Witness ==
    /\ testToast = "Cannot compare a group to itself."
    /\ currentTest(0).group1 = currentTest(0).group2
    /\ ShownAt(0) # Null
    /\ testCalls = {}

\* autoFillAbsorbance has run.
FillDone == fillToast # ""

\* Every concentration and absorbance of the points is a finite number.
Numeric(pts) ==
    \A i \in 1..Len(pts) :
        /\ IsFinite(Parsed(pts[i].concentration))
        /\ IsFinite(Parsed(pts[i].absorbance))

\* firstAbs + (lastAbs - firstAbs) / (lastConc - firstConc) * (conc - firstConc)
\* for the point i of pts.
LineValue(pts, i) ==
    FAdd(Parsed(pts[1].absorbance),
         FMul(FDiv(FSub(Parsed(pts[Len(pts)].absorbance), Parsed(pts[1].absorbance)),
                   FSub(Parsed(pts[Len(pts)].concentration), Parsed(pts[1].concentration))),
              FSub(Parsed(pts[i].concentration), Parsed(pts[1].concentration))))

\* Fewer than 2 points, or the first and last concentrations are equal.
NoLine(pts) ==
    \/ Len(pts) < 2
    \/ FEq(Parsed(pts[1].concentration), Parsed(pts[Len(pts)].concentration))

\* C30: autoFillAbsorbance, run on points that are all numbers, keeps the
\* number of points, every concentration and the first and last points; it
\* changes no point when there are fewer than 2 points or the first and last
\* concentrations are equal, and else leaves at each intermediate point the
\* absorbance of the straight line through the first and last points.
C30_StraightLine ==
    (FillDone /\ Numeric(filledFrom)) =>
        /\ Len(standardCurve) = Len(filledFrom)
        /\ \A i \in 1..Len(filledFrom) :
              /\ standardCurve[i].concentration = filledFrom[i].concentration
              /\ (i = 1 \/ i = Len(filledFrom)) => standardCurve[i] = filledFrom[i]
        /\ IF NoLine(filledFrom)
           THEN standardCurve = filledFrom
           ELSE \A i \in 2..(Len(filledFrom) - 1) :
                    Parsed(standardCurve[i].absorbance) = LineValue(filledFrom, i)

============================================================================
